---- MODULE Spec2Model ----
(***************************************************************************)
(* State-machine model of remind_service.py: the Telegram webhook commands *)
(* (/check, /done.<n>), the scheduled job_daily report, the LAST_TASKS     *)
(* index cache they share, the daily/weekly task selection rules and the   *)
(* goal progress normalisation of read_goal_properties.                    *)
(*                                                                         *)
(* Dates are day numbers; day 0 is a Monday, so weekday(d) = d % 7 as in   *)
(* datetime.date.weekday().  Explicit progress values are fixed-point      *)
(* numbers in hundredths (75 stands for 0.75, 6000 for 60).                *)
(***************************************************************************)
EXTENDS Integers, Sequences, FiniteSets, TLC

VARIABLES
    today,        \* datetime.datetime.now(TZ).date()
    db,           \* the pages of REMIND_DB, in the store's query order
    LAST_TASKS,   \* module-level cache for the /check -> /done mapping
    goal_page,    \* a page of GOALS_DB handed to read_goal_properties
    op,           \* what the last handler run did (its observable outputs)
    goals,        \* the pages of GOALS_DB, in the store's query order
    env,          \* the configuration read from the environment at import
    chat,         \* chat id of the message the webhook last accepted
    inflight,     \* a /done handler between its range check and its lookup
    probe         \* the argument handed to a helper function on its own

vars == <<today, db, LAST_TASKS, goal_page, op, goals, env, chat, inflight,
          probe>>

\* ------------------------------------------------------------------ bounds
MaxTasks == 2      \* pages in the store (listing state machine)
MaxProbe == 1      \* pages in the store (selection-rule specification)
Today0 == 12       \* the day the listing state machine runs on
MaxCount == 10     \* largest rollup count of a goal
MaxAgg == 2        \* pages in the store (goal aggregation specification)

\* Python values that may be None or an exception instead of a number.
Some(n) == [tag |-> "some", v |-> n]
NoneV == [tag |-> "none", v |-> 0]
RaiseV == [tag |-> "raise", v |-> 0]

\* A date property of a page: missing, present with a null payload, or a day.
NoDateProp == [kind |-> "absent", day |-> 0]
NullDate == [kind |-> "null", day |-> 0]
DateOn(d) == [kind |-> "date", day |-> d]

\* --------------------------------------------------------- page accessors
\* str.lower() on the priority labels that occur in the store.
Lower(s) ==
    CASE s = "Cao" -> "cao"
      [] s = "TB" -> "tb"
      [] s = "Trung bình" -> "trung bình"
      [] s = "Thấp" -> "thấp"
      [] OTHER -> s

\* bool(page["properties"].get(PROP_DONE, {}).get("checkbox", False))
get_checkbox(page) == page.done

\* the select's name; "" when the select is empty (pri = "")
get_select_name(page) == page.pri

\* properties.get(PROP_DUE, {}).get("date", {}).get("start"), parsed:
\* no date property -> None; a date property whose "date" payload is null
\* -> AttributeError; otherwise the parsed day.
get_date_start(page) ==
    CASE page.due.kind = "absent" -> NoneV
      [] page.due.kind = "null" -> RaiseV
      [] OTHER -> Some(page.due.day)

\* get_note_text raises when the note property is not a mapping.
get_note_text(page) == IF page.note = "bad" THEN RaiseV ELSE NoneV

\* (today - due).days, None without a due date
overdue_days(page, now) ==
    LET due_dt == get_date_start(page) IN
    IF due_dt.tag = "some" THEN Some(now - due_dt.v) ELSE due_dt

\* A week computed from isoweekday() (Monday = 1) runs Sunday..Saturday.
week_range_isoweekday(date_obj) ==
    LET start == date_obj - ((date_obj % 7) + 1) IN
    [start |-> start, end |-> start + 6]

week_range(date_obj) ==
    LET start == date_obj - (date_obj % 7) IN
    [start |-> start, end |-> start + 6]

\* ------------------------------------------------------ the store's filters
HasDate(page) == page.due.kind = "date"
date_is_not_empty(page) == HasDate(page)
date_on_or_after(page, d) == HasDate(page) /\ page.due.day >= d
date_on_or_before(page, d) == HasDate(page) /\ page.due.day <= d
date_before(page, d) == HasDate(page) /\ page.due.day < d
checkbox_equals(page, v) == page.done = v

\* job_daily's payload: {"and": [Done equals False, due is_not_empty]}
DailyFilter ==
    [kind |-> "daily", on_or_after |-> 0, on_or_before |-> 0, before |-> 0]

\* /check's payload: {"and": [Done equals False,
\*    {"or": [due on_or_after start_week and on_or_before end_week,
\*            due before now]}]}
CheckFilter(now) ==
    LET w == week_range(now) IN
    [kind |-> "check", on_or_after |-> w.start, on_or_before |-> w.end,
     before |-> now]

\* notion_query(GOALS_DB): no filter_payload, every page of the database.
NoFilter ==
    [kind |-> "none", on_or_after |-> 0, on_or_before |-> 0, before |-> 0]

\* The store's evaluation of a payload on one page.
Matches(page, filter_payload) ==
    IF filter_payload.kind = "none" THEN TRUE
    ELSE IF filter_payload.kind = "daily"
    THEN checkbox_equals(page, FALSE) /\ date_is_not_empty(page)
    ELSE /\ checkbox_equals(page, FALSE)
         /\ \/ (/\ date_on_or_after(page, filter_payload.on_or_after)
                /\ date_on_or_before(page, filter_payload.on_or_before))
            \/ date_before(page, filter_payload.before)

\* notion_query: the pages matching the filter, in store order; [] on any
\* HTTP error or exception (ok = FALSE).
notion_query(pages, filter_payload, ok) ==
    IF ok THEN SelectSeq(pages, LAMBDA p: Matches(p, filter_payload))
    ELSE <<>>

\* ids of a list of pages: [p.get("id") for p in pages if p and isinstance(p, dict)]
PageIds(pages) == [i \in 1..Len(pages) |-> pages[i].id]

\* -------------------------------------------------- read_goal_properties
\* The "formula" payload of the progress property: absent, a number, a string
\* (numeric text or not, with or without a trailing "%") or a date.  h is the
\* number in hundredths.
NoFormula == [kind |-> "absent", h |-> 0, percent |-> FALSE]
NumberFormula(h) == [kind |-> "number", h |-> h, percent |-> FALSE]
StringFormula(h, pc) == [kind |-> "string", h |-> h, percent |-> pc]
JunkFormula(pc) == [kind |-> "junk", h |-> 0, percent |-> pc]
DateFormula == [kind |-> "date", h |-> 0, percent |-> FALSE]

\* The "rollup" payload of a count property: absent, a number, or an array
\* of n elements.
NoRollup == [kind |-> "absent", n |-> 0]
NumberRollup(n) == [kind |-> "number", n |-> n]
ArrayRollup(n) == [kind |-> "array", n |-> n]

\* safe_formula: the formula's string, number or date; None without one.
\* The result keeps the payload, whose kind tells the Python type.
safe_formula(f) == f

\* safe_rollup_number: the rollup's number, else len(array); None without a
\* rollup.
safe_rollup_number(ru) ==
    IF ru.kind = "absent" THEN NoneV ELSE Some(ru.n)

\* float(str(raw).strip() without a trailing "%"): the value in hundredths,
\* or ValueError for text that is no number (a date's str() included).
ParseFloat(raw) ==
    IF raw.kind \in {"number", "string"} THEN Some(raw.h) ELSE RaiseV

\* int(round(a / b)) for b > 0: Python rounds halves to the even neighbour.
RoundHalfEven(a, b) ==
    LET q == a \div b
        r == a % b
    IN IF 2 * r > b \/ (2 * r = b /\ q % 2 = 1) THEN q + 1 ELSE q

\* The explicit branch: val <= 1 is a fraction and is multiplied by 100.
ExplicitPct(raw) ==
    LET val == ParseFloat(raw) IN
    IF val.tag # "some" THEN NoneV
    ELSE IF val.v <= 100 THEN Some(RoundHalfEven(val.v * 100, 100))
    ELSE Some(RoundHalfEven(val.v, 100))

\* The fallback branch: if total and (done is not None):
\*   int(round(done / total * 100)) if total > 0 else 0
RollupPct(total, done) ==
    IF total.tag = "some" /\ total.v # 0 /\ done.tag = "some"
    THEN (IF total.v > 0 THEN Some(RoundHalfEven(done.v * 100, total.v))
          ELSE Some(0))
    ELSE NoneV

\* Normalisation with the rollup counts taking precedence over the formula.
NormalizeProgressRollupFirst(raw_prog, total, done) ==
    LET byCount == RollupPct(total, done) IN
    IF byCount.tag = "some" THEN byCount
    ELSE IF raw_prog.kind # "absent" THEN ExplicitPct(raw_prog)
    ELSE NoneV

\* progress_pct: the explicit value when it parses, else the rollups.
NormalizeProgress(raw_prog, total, done) ==
    LET explicit == IF raw_prog.kind # "absent" THEN ExplicitPct(raw_prog)
                    ELSE NoneV
    IN IF explicit.tag = "some" THEN explicit ELSE RollupPct(total, done)

read_goal_properties(g) ==
    LET tien_do == safe_formula(g.progress)
        tong == safe_rollup_number(g.total)
        da_hoan == safe_rollup_number(g.done)
    IN [tien_do_formula |-> tien_do,
        tong_nhiem_vu_rollup |-> tong,
        nhiem_vu_da_hoan_rollup |-> da_hoan,
        progress_pct |-> NormalizeProgress(tien_do, tong, da_hoan)]

\* ------------------------------------------------------------- job_daily
\* The priority rule with strict comparisons.
DailyRuleStrict(p, now) ==
    LET due_dt == get_date_start(p) IN
    IF due_dt.tag # "some" THEN FALSE
    ELSE LET days_left == due_dt.v - now
             pri == Lower(get_select_name(p))
         IN \/ (pri = "cao" /\ days_left < 2)
            \/ (pri \in {"tb", "trung bình"} /\ days_left < 1)
            \/ (pri = "thấp" /\ days_left < 0)

\* The rule with a final else: any other label counts as "thấp".
DailyRuleDefaultLow(p, now) ==
    LET due_dt == get_date_start(p) IN
    IF due_dt.tag # "some" THEN FALSE
    ELSE LET days_left == due_dt.v - now
             pri == Lower(get_select_name(p))
         IN \/ (pri = "cao" /\ days_left <= 2)
            \/ (pri \in {"tb", "trung bình"} /\ days_left <= 1)
            \/ (pri \notin {"cao", "tb", "trung bình"} /\ days_left <= 0)

\* The priority rule of the selection loop; an exception skips the page.
DailyRule(p, now) ==
    LET due_dt == get_date_start(p) IN
    IF due_dt.tag # "some" THEN FALSE
    ELSE LET days_left == due_dt.v - now
             pri == Lower(get_select_name(p))
         IN \/ (pri = "cao" /\ days_left <= 2)
            \/ (pri \in {"tb", "trung bình"} /\ days_left <= 1)
            \/ (pri = "thấp" /\ days_left <= 0)

\* Selection that also orders by urgency: pages already due first.
DailySelectUrgentFirst(all_tasks, now) ==
    LET sel == SelectSeq(all_tasks, LAMBDA p: DailyRule(p, now)) IN
    SelectSeq(sel, LAMBDA p: p.due.day <= now)
        \o SelectSeq(sel, LAMBDA p: p.due.day > now)

\* tasks = [p for p in all_tasks if the priority rule holds], in order
DailySelect(all_tasks, now) ==
    SelectSeq(all_tasks, LAMBDA p: DailyRule(p, now))

\* The system note of a task line, from d = overdue_days(p): none without a
\* due date, "Đã trễ d ngày" when d > 0, "Làm ngay hôm nay" when d = 0 and
\* "Còn abs(d) ngày nữa" when d < 0.
NoSysNote == [kind |-> "", days |-> 0]
SysNote(d) ==
    CASE d.tag # "some" -> NoSysNote
      [] d.tag = "some" /\ d.v > 0 -> [kind |-> "overdue", days |-> d.v]
      [] d.tag = "some" /\ d.v = 0 -> [kind |-> "today", days |-> 0]
      [] OTHER -> [kind |-> "remaining", days |-> -d.v]

\* The body of the rendering loop appends a line unless the page is marked
\* done or formatting it raises.
DailyRendered(p, now) ==
    /\ ~get_checkbox(p)
    /\ get_note_text(p).tag # "raise"
    /\ get_date_start(p).tag # "raise"
    /\ overdue_days(p, now).tag # "raise"

\* for i, p in enumerate(tasks, start=1): the lines appended, each with the
\* ordinal i it shows and the page it is about.
DailyLines(tasks, now) ==
    SelectSeq([i \in 1..Len(tasks) |->
                 [ord |-> i, id |-> tasks[i].id,
                  sys_note |-> SysNote(overdue_days(tasks[i], now))]],
              LAMBDA l: DailyRendered(tasks[l.ord], now))

\* A cache of the pages that were rendered only.
DailyCacheRenderedOnly(tasks) ==
    LET l == DailyLines(tasks, today) IN [i \in 1..Len(l) |-> l[i].id]

\* LAST_TASKS = [p.get("id") for p in tasks if p and isinstance(p, dict)]
DailyCache(tasks) == PageIds(tasks)

\* Buckets without fan-out: a task goes to the goal of its first relation only.
RECURSIVE goal_map_first_goal(_, _)
goal_map_first_goal(tasks, gid) ==
    IF tasks = <<>> THEN <<>>
    ELSE LET p == Head(tasks) IN
         (IF p.rels # <<>> /\ p.rels[1] = gid THEN <<p>> ELSE <<>>)
            \o goal_map_first_goal(Tail(tasks), gid)

\* goal_map[gid]: for p in tasks, for r in rels with r.id = gid, append p.
RECURSIVE goal_map(_, _)
goal_map(tasks, gid) ==
    IF tasks = <<>> THEN <<>>
    ELSE LET p == Head(tasks)
             hits == SelectSeq(p.rels, LAMBDA r: r = gid)
         IN [k \in 1..Len(hits) |-> p] \o goal_map(Tail(tasks), gid)

\* "→ Tiến độ: {pct}% ..." when pct is not None, else "không có dữ liệu"
GoalProgressLine(gid, pct) ==
    [kind |-> IF pct.tag = "some" THEN "percent" ELSE "no_data",
     gid |-> gid, id |-> 0, pct |-> pct, sys_note |-> NoSysNote]

\* The lines of one goal: header, progress, one line per related task.
GoalBlock(g, related_tasks, now) ==
    LET ginfo == read_goal_properties(g) IN
    <<[kind |-> "goal", gid |-> g.id, id |-> 0, pct |-> NoneV,
       sys_note |-> NoSysNote],
      GoalProgressLine(g.id, ginfo.progress_pct)>>
    \o [k \in 1..Len(related_tasks) |->
          [kind |-> "task", gid |-> g.id, id |-> related_tasks[k].id,
           pct |-> NoneV,
           sys_note |-> SysNote(overdue_days(related_tasks[k], now))]]

\* The loop without its "continue": a block for every fetched goal.
RECURSIVE GoalLinesEveryGoal(_, _, _)
GoalLinesEveryGoal(fetched, tasks, now) ==
    IF fetched = <<>> THEN <<>>
    ELSE GoalBlock(Head(fetched), goal_map(tasks, Head(fetched).id), now)
            \o GoalLinesEveryGoal(Tail(fetched), tasks, now)

\* for g in goals: if gid not in goal_map: continue; else the goal's block
RECURSIVE GoalLines(_, _, _)
GoalLines(fetched, tasks, now) ==
    IF fetched = <<>> THEN <<>>
    ELSE LET g == Head(fetched)
             related_tasks == goal_map(tasks, g.id)
         IN (IF related_tasks = <<>> THEN <<>>
             ELSE GoalBlock(g, related_tasks, now))
            \o GoalLines(Tail(fetched), tasks, now)

\* total_goal_tasks_due += len(related_tasks) for each goal with a block
RECURSIVE total_goal_tasks_due(_, _)
total_goal_tasks_due(fetched, tasks) ==
    IF fetched = <<>> THEN 0
    ELSE Len(goal_map(tasks, Head(fetched).id))
         + total_goal_tasks_due(Tail(fetched), tasks)

\* The per-task lines of a block are built outside any try: a related task
\* whose note or date accessor raises ends job_daily before the send.
\* read_goal_properties(g) is called outside any try as well: it raises when
\* the goal's end date has a null payload (safe_date reads
\* props.get(k, {}).get("date", {}).get("start")).
ReadGoalRaises(g) == g.end = NullDate

GoalSectionRaises(fetched, tasks) ==
    \E j \in 1..Len(fetched):
        LET related_tasks == goal_map(tasks, fetched[j].id) IN
        \/ related_tasks # <<>> /\ ReadGoalRaises(fetched[j])
        \/ \E k \in 1..Len(related_tasks):
              \/ get_note_text(related_tasks[k]).tag = "raise"
              \/ get_date_start(related_tasks[k]).tag = "raise"

\* "if GOALS_DB and goal_map: goals = notion_query(GOALS_DB) or []"
GoalsQueried(tasks) ==
    env.GOALS_DB /\ (\E i \in 1..Len(tasks): tasks[i].rels # <<>>)

FetchedGoals(tasks, goals_ok) ==
    IF GoalsQueried(tasks)
    THEN notion_query(goals, NoFilter, goals_ok)
    ELSE <<>>

\* The AI planning part runs after the send and the LAST_TASKS assignment,
\* when GOALS_DB and OPENAI_API_KEY are set; its first statement after the
\* goal query, datetime.now(TZ) on the module datetime, raises
\* AttributeError, so it adds nothing and job_daily ends in the exception.
AiPlanning ==
    IF env.GOALS_DB /\ env.OPENAI_API_KEY THEN "raised" ELSE "skipped"

\* One run of job_daily: query, selection, rendering, goals section, send,
\* LAST_TASKS assignment, AI planning.
job_daily ==
    \E ok \in BOOLEAN, goals_ok \in BOOLEAN:
        LET all_tasks == notion_query(db, DailyFilter, ok)
            tasks == DailySelect(all_tasks, today)
            fetched == FetchedGoals(tasks, goals_ok)
        IN /\ IF GoalSectionRaises(fetched, tasks)
              THEN /\ LAST_TASKS' = LAST_TASKS
                   /\ op' = [name |-> "job_daily", sent |-> "raised",
                             all_tasks |-> all_tasks, tasks |-> tasks,
                             lines |-> <<>>,
                             update |-> NoneV, arg |-> NoneV,
                             cache_before |-> LAST_TASKS,
                             goal_lines |-> <<>>,
                             total_goal_tasks_due |-> 0,
                             goals_ok |-> goals_ok, ai |-> "skipped"]
              ELSE /\ LAST_TASKS' = DailyCache(tasks)
                   /\ op' = [name |-> "job_daily", sent |-> "daily",
                             all_tasks |-> all_tasks, tasks |-> tasks,
                             lines |-> DailyLines(tasks, today),
                             update |-> NoneV, arg |-> NoneV,
                             cache_before |-> LAST_TASKS,
                             goal_lines |-> GoalLines(fetched, tasks, today),
                             total_goal_tasks_due |->
                                 total_goal_tasks_due(fetched, tasks),
                             goals_ok |-> goals_ok /\ GoalsQueried(tasks),
                             ai |-> AiPlanning]
           /\ UNCHANGED <<today, db, goal_page, goals, env, chat, inflight, probe>>

\* ---------------------------------------------------------- webhook /check
\* The rendering loop of /check.  A page marked done is skipped, a page whose
\* formatting raises is skipped; a line shows len(visible_tasks)+1 as its
\* ordinal.  The loop never appends to visible_tasks.
\* The annotation a /check line shows: sys_note is computed from
\* overdue_days(p), but the line appends `note`, which is "" (if note:).
CheckNote(p, now) ==
    LET note == NoSysNote
        sys_note == SysNote(overdue_days(p, now))
    IN IF note # NoSysNote THEN note ELSE NoSysNote

RECURSIVE CheckLoop(_, _, _, _, _)
CheckLoop(tasks, i, lines, visible_tasks, now) ==
    IF i > Len(tasks) THEN [lines |-> lines, visible_tasks |-> visible_tasks]
    ELSE LET p == tasks[i] IN
         IF get_checkbox(p)
         THEN CheckLoop(tasks, i + 1, lines, visible_tasks, now)
         ELSE IF \/ get_note_text(p).tag = "raise"
                 \/ overdue_days(p, now).tag = "raise"
         THEN CheckLoop(tasks, i + 1, lines, visible_tasks, now)
         ELSE CheckLoop(tasks, i + 1,
                        Append(lines, [ord |-> Len(visible_tasks) + 1,
                                       id |-> p.id,
                                       sys_note |-> CheckNote(p, now)]),
                        visible_tasks, now)

\* ------------------------------------------------------ webhook: chat gate
\* The chats that send messages to the bot; NoChat: no message accepted yet.
Chats == {1, 2}
NoChat == 0

\* TELEGRAM_CHAT_ID, GOALS_DB and OPENAI_API_KEY as os.getenv leaves them:
\* the chat id is a value or unset, the other two are set or unset.
EnvOf(chat_id, goals_db, openai_key) ==
    [TELEGRAM_CHAT_ID |-> chat_id, GOALS_DB |-> goals_db,
     OPENAI_API_KEY |-> openai_key]
Env0 == EnvOf(Some(1), FALSE, FALSE)

\* The chat id test left out: every message passes.
AllowedAny(chat_id) == TRUE

\* A message passes unless "TELEGRAM_CHAT_ID and chat_id != TELEGRAM_CHAT_ID".
Allowed(chat_id) ==
    env.TELEGRAM_CHAT_ID.tag = "none" \/ chat_id = env.TELEGRAM_CHAT_ID.v

\* The head of webhook for a message that passes the chat id test.
webhook_accept == \E chat_id \in Chats: Allowed(chat_id) /\ chat' = chat_id

\* The /check branch of webhook: an empty query result answers early and
\* leaves LAST_TASKS alone; otherwise the list is rendered, LAST_TASKS is set
\* from visible_tasks and the message is sent.
webhook_check ==
    /\ webhook_accept
    /\ \E ok \in BOOLEAN:
        LET tasks == notion_query(db, CheckFilter(today), ok)
            r == CheckLoop(tasks, 1, <<>>, <<>>, today)
        IN /\ IF tasks = <<>>
              THEN /\ LAST_TASKS' = LAST_TASKS
                   /\ op' = [name |-> "check", sent |-> "no_tasks",
                             all_tasks |-> tasks, tasks |-> tasks,
                             lines |-> <<>>,
                             update |-> NoneV, arg |-> NoneV,
                             cache_before |-> LAST_TASKS]
              ELSE /\ LAST_TASKS' = PageIds(r.visible_tasks)
                   /\ op' = [name |-> "check", sent |-> "list",
                             all_tasks |-> tasks, tasks |-> tasks,
                             lines |-> r.lines,
                             update |-> NoneV, arg |-> NoneV,
                             cache_before |-> LAST_TASKS]
           /\ UNCHANGED <<today, db, goal_page, goals, env, inflight, probe>>

\* ----------------------------------------------------------- webhook /done
\* A range check "n < 0" lets n = 0 through to LAST_TASKS[-1], the last id.
resolve_zero_allowed(cache, n) ==
    IF n < 0 \/ n > Len(cache) THEN NoneV
    ELSE IF n = 0 THEN (IF cache = <<>> THEN RaiseV ELSE Some(cache[Len(cache)]))
    ELSE Some(cache[n])

\* n < 1 or n > len(LAST_TASKS) -> no page; else LAST_TASKS[n - 1]
resolve(cache, n) ==
    IF n < 1 \/ n > Len(cache) THEN NoneV ELSE Some(cache[n])

\* notion_update_page(page_id, {Done: true, ...}); the store applies it when
\* the request succeeds (ok), and the handler ignores the outcome.
notion_update_page(pages, page_id, ok) ==
    IF ok /\ page_id \in 1..Len(pages)
    THEN [pages EXCEPT ![page_id].done = TRUE]
    ELSE pages

\* if not isinstance(LAST_TASKS, list): LAST_TASKS = [] -- the first statement
\* of /done.  LAST_TASKS is only ever bound to a list, so it is kept.
ensure_list_reset(cache) == <<>>

ensure_list(cache) == cache

\* "/done.<text>": text is either not all digits, or the number n.
webhook_done_bad_format ==
    /\ webhook_accept
    /\ op' = [name |-> "done", sent |-> "bad_format",
              all_tasks |-> <<>>, tasks |-> <<>>, lines |-> <<>>,
              update |-> NoneV, arg |-> NoneV,
              cache_before |-> LAST_TASKS]
    /\ LAST_TASKS' = ensure_list(LAST_TASKS)
    /\ UNCHANGED <<today, db, goal_page, goals, env, inflight, probe>>

webhook_done ==
    /\ webhook_accept
    /\ \E n \in 0..(MaxTasks + 1), ok \in BOOLEAN:
        LET page_id == resolve(LAST_TASKS, n) IN
        /\ IF page_id.tag = "none"
           THEN /\ db' = db
                /\ op' = [name |-> "done", sent |-> "invalid_number",
                          all_tasks |-> <<>>, tasks |-> <<>>, lines |-> <<>>,
                          update |-> NoneV, arg |-> Some(n),
                          cache_before |-> LAST_TASKS]
           ELSE /\ db' = notion_update_page(db, page_id.v, ok)
                /\ op' = [name |-> "done", sent |-> "marked_done",
                          all_tasks |-> <<>>, tasks |-> <<>>, lines |-> <<>>,
                          update |-> page_id, arg |-> Some(n),
                          cache_before |-> LAST_TASKS]
        /\ LAST_TASKS' = ensure_list(LAST_TASKS)
        /\ UNCHANGED <<today, goal_page, goals, env, inflight, probe>>

\* ------------------------------------------------- the listing state machine
Priorities == {"Cao", "Thấp"}
DueOffsets == {0, 2}
Notes == {"ok", "bad"}

Page(i, due, pri, note) ==
    [id |-> i, done |-> FALSE, due |-> due, pri |-> pri, note |-> note,
     rels |-> <<>>]

NoGoal == [progress |-> [kind |-> "absent", h |-> 0, percent |-> FALSE],
           total |-> [kind |-> "absent", n |-> 0],
           done |-> [kind |-> "absent", n |-> 0]]

NoOp == [name |-> "init", sent |-> "", all_tasks |-> <<>>, tasks |-> <<>>,
         lines |-> <<>>, update |-> NoneV, arg |-> NoneV,
         cache_before |-> <<>>]

Init ==
    /\ today = Today0
    /\ \E n \in 0..MaxTasks:
         \E f \in [1..n -> DueOffsets \X Priorities \X Notes]:
            db = [i \in 1..n |->
                    Page(i, DateOn(today + f[i][1]), f[i][2], f[i][3])]
    /\ LAST_TASKS = <<>>
    /\ goal_page = NoGoal
    /\ op = NoOp
    /\ goals = <<>>
    /\ env = Env0
    /\ chat = NoChat
    /\ inflight = NoneV
    /\ probe = NoneV

Next ==
    job_daily \/ webhook_check \/ webhook_done \/ webhook_done_bad_format

Spec == Init /\ [][Next]_vars

\* ------------------------------------------------------------ webhook /new
\* The text of a command part is a sequence of characters.
Digits == {"0", "1", "2", "3", "4", "5", "6", "7", "8", "9"}

DigitValue(c) ==
    CASE c = "0" -> 0 [] c = "1" -> 1 [] c = "2" -> 2 [] c = "3" -> 3
      [] c = "4" -> 4 [] c = "5" -> 5 [] c = "6" -> 6 [] c = "7" -> 7
      [] c = "8" -> 8 [] OTHER -> 9

\* s[a:b] with 0-based a and exclusive b, as Python slices (clipped).
Slice(s, a, b) == SubSeq(s, a + 1, IF b > Len(s) THEN Len(s) ELSE b)

\* int(text): the decimal value of a non-empty run of digits, else
\* ValueError (the parts are stripped; signs and "_" are not in the alphabet).
RECURSIVE DecimalValue(_)
DecimalValue(s) ==
    IF s = <<>> THEN 0
    ELSE 10 * DecimalValue(SubSeq(s, 1, Len(s) - 1)) + DigitValue(s[Len(s)])

ParseInt(s) ==
    IF s # <<>> /\ \A k \in 1..Len(s): s[k] \in Digits
    THEN Some(DecimalValue(s)) ELSE RaiseV

IsLeap(y) == (y % 4 = 0 /\ y % 100 # 0) \/ y % 400 = 0

DaysInMonth(y, m) ==
    CASE m \in {4, 6, 9, 11} -> 30
      [] m = 2 -> (IF IsLeap(y) THEN 29 ELSE 28)
      [] OTHER -> 31

RECURSIVE DaysBeforeMonth(_, _)
DaysBeforeMonth(y, m) ==
    IF m <= 1 THEN 0 ELSE DaysBeforeMonth(y, m - 1) + DaysInMonth(y, m - 1)

\* date.toordinal(): days since 0001-01-01, that day being 1.
ToOrdinal(y, m, d) ==
    365 * (y - 1) + ((y - 1) \div 4) - ((y - 1) \div 100)
        + ((y - 1) \div 400) + DaysBeforeMonth(y, m) + d

\* Day 0 of the model is Monday 2025-12-01.
DayNumber(y, m, d) == ToOrdinal(y, m, d) - ToOrdinal(2025, 12, 1)

\* datetime.datetime(yyyy, mm, dd, hh, mi) raises ValueError out of range.
ValidDateTime(yyyy, mm, dd, hh, mi) ==
    /\ yyyy \in 1..9999
    /\ mm \in 1..12
    /\ dd >= 1 /\ dd <= DaysInMonth(yyyy, mm)
    /\ hh \in 0..23
    /\ mi \in 0..59

\* The try block of /new: DDMMYY or DDMMYYYY by the length of date_part,
\* hh = int(time_part[0:2]) if len(time_part) >= 2 else 0,
\* mi = int(time_part[2:4]) if len(time_part) >= 4 else 0, then the
\* datetime constructor; any exception gives the corrective message.
ParseNew(date_part, time_part) ==
    LET dd == ParseInt(Slice(date_part, 0, 2))
        mm == ParseInt(Slice(date_part, 2, 4))
        yyyy == IF Len(date_part) = 6
                THEN (LET yy == ParseInt(Slice(date_part, 4, 6)) IN
                      IF yy.tag = "some" THEN Some(2000 + yy.v) ELSE yy)
                ELSE ParseInt(Slice(date_part, 4, 8))
        hh == IF Len(time_part) >= 2 THEN ParseInt(Slice(time_part, 0, 2))
              ELSE Some(0)
        mi == IF Len(time_part) >= 4 THEN ParseInt(Slice(time_part, 2, 4))
              ELSE Some(0)
    IN IF Len(date_part) \notin {6, 8} THEN RaiseV
       ELSE IF \E x \in {dd, mm, yyyy, hh, mi}: x.tag # "some" THEN RaiseV
       ELSE IF ~ValidDateTime(yyyy.v, mm.v, dd.v, hh.v, mi.v) THEN RaiseV
       ELSE Some([day |-> DayNumber(yyyy.v, mm.v, dd.v),
                  hh |-> hh.v, mi |-> mi.v])

\* str.capitalize() on the priority labels of the commands.
Capitalize(s) ==
    CASE s = "cao" -> "Cao"
      [] s = "thấp" -> "Thấp"
      [] s = "tb" -> "Tb"
      [] OTHER -> s

\* notion_create_page(REMIND_DB, props): the new page, None on any error.
notion_create_page(pages, due, pri, ok) ==
    IF ok THEN Append(pages, Page(Len(pages) + 1, due, pri, "ok")) ELSE pages

\* The date and time parts tried: 13/12/2025 (day 12) in both lengths,
\* 31/11/2025, seven characters, a letter, year 0000; 09:00, hour 24,
\* minute 60, one and three characters, a letter, the empty text.
DateParts ==
    {<<"1", "3", "1", "2", "2", "5">>,
     <<"1", "3", "1", "2", "2", "0", "2", "5">>,
     <<"3", "1", "1", "1", "2", "5">>,
     <<"1", "3", "1", "2", "2", "5", "5">>,
     <<"1", "3", "x", "2", "2", "5">>,
     <<"1", "3", "1", "2", "0", "0", "0", "0">>}

TimeParts ==
    {<<"0", "9", "0", "0">>,
     <<"2", "4", "0", "0">>,
     <<"0", "9", "6", "0">>,
     <<"9">>,
     <<"0", "9", "3">>,
     <<"0", "9", "x", "0">>,
     <<>>}

\* time_part = parts[2].strip() if len(parts) >= 3 else "0000"
GivenTime(text) == [given |-> TRUE, text |-> text]
NoTime == [given |-> FALSE, text |-> <<"0", "0", "0", "0">>]

\* "/new.<name>" without a second part: the format message.
webhook_new_bad_format ==
    /\ webhook_accept
    /\ op' = [name |-> "new", sent |-> "bad_format", date_part |-> <<>>,
              time_part |-> NoTime, created |-> FALSE,
              cache_before |-> LAST_TASKS]
    /\ UNCHANGED <<today, db, LAST_TASKS, goal_page, goals, env, inflight,
                   probe>>

\* "/new.<name>.<date>[.<time>[.<priority>]]": parse, then create the page
\* and confirm, or report that the creation failed.
webhook_new ==
    /\ webhook_accept
    /\ \E date_part \in DateParts,
          time_part \in {NoTime} \cup {GivenTime(t) : t \in TimeParts},
          priority \in {"cao", "thấp"}, ok \in BOOLEAN:
         LET dt == ParseNew(date_part, time_part.text) IN
         IF dt.tag # "some"
         THEN /\ db' = db
              /\ op' = [name |-> "new", sent |-> "bad_datetime",
                        date_part |-> date_part, time_part |-> time_part,
                        created |-> FALSE, cache_before |-> LAST_TASKS]
         ELSE /\ Len(db) < MaxTasks
              /\ db' = notion_create_page(db, DateOn(dt.v.day),
                                          Capitalize(priority), ok)
              /\ op' = [name |-> "new",
                        sent |-> IF ok THEN "created" ELSE "create_error",
                        date_part |-> date_part, time_part |-> time_part,
                        created |-> ok, cache_before |-> LAST_TASKS]
    /\ UNCHANGED <<today, LAST_TASKS, goal_page, goals, env, inflight, probe>>

InitNew ==
    /\ today = Today0
    /\ db = <<>>
    /\ LAST_TASKS = <<>>
    /\ goal_page = NoGoal
    /\ op = NoOp
    /\ goals = <<>>
    /\ env = Env0
    /\ chat = NoChat
    /\ inflight = NoneV
    /\ probe = NoneV

NextNew == webhook_new \/ webhook_new_bad_format \/ job_daily

SpecNew == InitNew /\ [][NextNew]_vars

\* ------------------------------------------------ several chats, one cache
\* The texts a message may carry; the chat id test comes before the text is
\* read.
Texts == {"/check", "/done.1", "/new.Call.131225", "hello"}

\* A message from a chat other than a configured TELEGRAM_CHAT_ID is
\* answered 403 before anything else happens.
webhook_forbidden ==
    /\ \E chat_id \in Chats, text \in Texts:
         /\ ~Allowed(chat_id)
         /\ op' = [name |-> "forbidden", sent |-> "403", text |-> text,
                   all_tasks |-> <<>>, tasks |-> <<>>, lines |-> <<>>,
                   update |-> NoneV, arg |-> NoneV,
                   cache_before |-> LAST_TASKS]
    /\ UNCHANGED <<today, db, LAST_TASKS, goal_page, goals, env, chat,
                   inflight, probe>>

\* The listing state machine with TELEGRAM_CHAT_ID set to chat 1 or unset.
ChatEnvs == {EnvOf(NoneV, FALSE, FALSE), EnvOf(Some(1), FALSE, FALSE)}

InitChat ==
    /\ today = Today0
    /\ \E n \in 0..MaxTasks:
         \E f \in [1..n -> DueOffsets]:
            db = [i \in 1..n |-> Page(i, DateOn(today + f[i]), "Cao", "ok")]
    /\ LAST_TASKS = <<>>
    /\ goal_page = NoGoal
    /\ op = NoOp
    /\ goals = <<>>
    /\ env \in ChatEnvs
    /\ chat = NoChat
    /\ inflight = NoneV
    /\ probe = NoneV

NextChat ==
    \/ job_daily \/ webhook_check \/ webhook_done \/ webhook_done_bad_format
    \/ webhook_forbidden

SpecChat == InitChat /\ [][NextChat]_vars

\* ------------------------------------------------ /done under concurrency
\* The server runs threaded (app.run(..., threaded=True)) and job_daily runs on
\* the scheduler's thread, so another handler can assign LAST_TASKS between the
\* length test of /done (n > len(LAST_TASKS)) and its read LAST_TASKS[n - 1].
\* inflight holds the /done request that has passed the length test: its
\* number n and the list the test saw.
InFlight(n, seen) == [tag |-> "some", v |-> n, seen |-> seen]

\* "/done.n" up to the length test.
done_check ==
    /\ inflight.tag = "none"
    /\ webhook_accept
    /\ \E n \in 0..(MaxTasks + 1):
        IF resolve(LAST_TASKS, n).tag = "none"
        THEN /\ inflight' = inflight
             /\ op' = [name |-> "done", sent |-> "invalid_number",
                       update |-> NoneV, arg |-> Some(n),
                       seen |-> LAST_TASKS, cache_before |-> LAST_TASKS]
        ELSE /\ inflight' = InFlight(n, LAST_TASKS)
             /\ op' = op
    /\ LAST_TASKS' = ensure_list(LAST_TASKS)
    /\ UNCHANGED <<today, db, goal_page, goals, env, probe>>

\* page_id = LAST_TASKS[n - 1] and the rest of the handler; an n beyond the
\* list now bound to LAST_TASKS raises IndexError, which the handler's outer
\* except turns into the internal-error message.
done_index ==
    /\ inflight.tag = "some"
    /\ \E ok \in BOOLEAN:
        IF inflight.v > Len(LAST_TASKS)
        THEN /\ db' = db
             /\ op' = [name |-> "done", sent |-> "internal_error",
                       update |-> NoneV, arg |-> Some(inflight.v),
                       seen |-> inflight.seen, cache_before |-> LAST_TASKS]
        ELSE /\ db' = notion_update_page(db, LAST_TASKS[inflight.v], ok)
             /\ op' = [name |-> "done", sent |-> "marked_done",
                       update |-> Some(LAST_TASKS[inflight.v]),
                       arg |-> Some(inflight.v),
                       seen |-> inflight.seen, cache_before |-> LAST_TASKS]
    /\ inflight' = NoneV
    /\ UNCHANGED <<today, LAST_TASKS, goal_page, goals, env, chat, probe>>

NextRace ==
    job_daily \/ webhook_check \/ done_check \/ done_index

SpecRace == Init /\ [][NextRace]_vars


\* ------------------------------------------- job_daily between send and store
\* job_daily sends the report (send_telegram) and assigns LAST_TASKS in the
\* next statement; the webhook runs on other threads, so a command can be
\* handled in between.  inflight holds the report that has been sent and not
\* yet stored: the ids of its lines.
Sent(ids) == [tag |-> "sent", v |-> 0, ids |-> ids]

\* job_daily up to and including send_telegram.
daily_send ==
    /\ inflight.tag = "none"
    /\ \E ok \in BOOLEAN, goals_ok \in BOOLEAN:
        LET all_tasks == notion_query(db, DailyFilter, ok)
            tasks == DailySelect(all_tasks, today)
            fetched == FetchedGoals(tasks, goals_ok)
        IN IF GoalSectionRaises(fetched, tasks)
           THEN /\ inflight' = inflight
                /\ op' = [name |-> "job_daily", sent |-> "raised",
                          all_tasks |-> all_tasks, tasks |-> tasks,
                          lines |-> <<>>,
                          update |-> NoneV, arg |-> NoneV,
                          cache_before |-> LAST_TASKS]
           ELSE /\ inflight' = Sent(DailyCache(tasks))
                /\ op' = [name |-> "job_daily", sent |-> "daily",
                          all_tasks |-> all_tasks, tasks |-> tasks,
                          lines |-> DailyLines(tasks, today),
                          update |-> NoneV, arg |-> NoneV,
                          cache_before |-> LAST_TASKS]
    /\ UNCHANGED <<today, db, LAST_TASKS, goal_page, goals, env, chat, probe>>

\* LAST_TASKS = [p.get("id") for p in tasks ...], the statement after the send.
daily_store ==
    /\ inflight.tag = "sent"
    /\ LAST_TASKS' = inflight.ids
    /\ inflight' = NoneV
    /\ UNCHANGED <<today, db, goal_page, op, goals, env, chat, probe>>

NextSend ==
    daily_send \/ daily_store \/ webhook_check \/ webhook_done

SpecSend == Init /\ [][NextSend]_vars

\* ------------------------------------------- the selection rules on one store
\* The selection loop of job_daily and the store query of /check applied to
\* a store drawn from every combination of due date, priority and done flag.
RulePriorities == {"Cao", "tb", "Trung bình", "Thấp", ""}
RuleTodays == 7..13
RuleDues == {NoDateProp, NullDate} \cup {DateOn(d) : d \in 6..16}

InitRule ==
    /\ today \in RuleTodays
    /\ \E n \in 1..MaxProbe:
         \E f \in [1..n -> RuleDues \X RulePriorities \X BOOLEAN]:
            db = [i \in 1..n |->
                    [Page(i, f[i][1], f[i][2], "ok") EXCEPT !.done = f[i][3]]]
    /\ LAST_TASKS = <<>>
    /\ goal_page = NoGoal
    /\ op = NoOp
    /\ goals = <<>>
    /\ env = Env0
    /\ chat = NoChat
    /\ inflight = NoneV
    /\ probe = NoneV

select_daily ==
    /\ op' = [NoOp EXCEPT !.name = "select_daily", !.all_tasks = db,
                          !.tasks = DailySelect(db, today)]
    /\ UNCHANGED <<today, db, LAST_TASKS, goal_page, goals, env, chat, inflight, probe>>

query_check ==
    /\ op' = [NoOp EXCEPT !.name = "query_check", !.all_tasks = db,
                 !.tasks = notion_query(db, CheckFilter(today), TRUE)]
    /\ UNCHANGED <<today, db, LAST_TASKS, goal_page, goals, env, chat, inflight, probe>>

NextRule == select_daily \/ query_check

SpecRule == InitRule /\ [][NextRule]_vars

\* ------------------------------------------------- the daily goals section
\* job_daily on a store whose pages carry goal relations, with GOALS_DB
\* holding the goals in some order, configured or not.
GoalIds == {1, 2}
RelChoices == {<<>>, <<1>>, <<2>>, <<1, 2>>}
GoalOrders == {<<>>, <<1>>, <<2>>, <<1, 2>>, <<2, 1>>}
AggEnvs == {EnvOf(Some(1), FALSE, FALSE), EnvOf(Some(1), TRUE, FALSE),
            EnvOf(Some(1), TRUE, TRUE)}

GoalPage(gid) ==
    [id |-> gid, progress |-> NoFormula, total |-> NoRollup,
     done |-> NoRollup, end |-> NoDateProp]

\* A page the daily rule selects, one it does not, one whose note is broken.
AggPage(i, shape, rels) ==
    [(CASE shape = "selected" -> Page(i, DateOn(Today0), "Cao", "ok")
        [] shape = "later" -> Page(i, DateOn(Today0 + 2), "Thấp", "ok")
        [] OTHER -> Page(i, DateOn(Today0), "Cao", "bad"))
     EXCEPT !.rels = rels]

InitAgg ==
    /\ today = Today0
    /\ \E n \in 0..MaxAgg:
         \E f \in [1..n -> {"selected", "later", "badnote"} \X RelChoices]:
            db = [i \in 1..n |-> AggPage(i, f[i][1], f[i][2])]
    /\ LAST_TASKS = <<>>
    /\ goal_page = NoGoal
    /\ op = NoOp
    /\ \E o \in GoalOrders: goals = [j \in 1..Len(o) |-> GoalPage(o[j])]
    /\ env \in AggEnvs
    /\ chat = NoChat
    /\ inflight = NoneV
    /\ probe = NoneV

NextAgg == job_daily

SpecAgg == InitAgg /\ [][NextAgg]_vars

\* The goal section on a goal list in which goal 1 may be malformed: its end
\* date absent, given, or present with a null payload.  Every task is well
\* formed.
GoalEnds == {NoDateProp, NullDate, DateOn(Today0 + 5)}

InitBadGoal ==
    /\ today = Today0
    /\ \E n \in 0..MaxAgg:
         \E f \in [1..n -> {"selected", "later"} \X RelChoices]:
            db = [i \in 1..n |-> AggPage(i, f[i][1], f[i][2])]
    /\ LAST_TASKS = <<>>
    /\ goal_page = NoGoal
    /\ op = NoOp
    /\ \E o \in GoalOrders, e \in GoalEnds:
         goals = [j \in 1..Len(o) |->
                    [GoalPage(o[j]) EXCEPT
                        !.end = IF o[j] = 1 THEN e ELSE NoDateProp]]
    /\ env = EnvOf(Some(1), TRUE, FALSE)
    /\ chat = NoChat
    /\ inflight = NoneV
    /\ probe = NoneV

NextBadGoal == job_daily

SpecBadGoal == InitBadGoal /\ [][NextBadGoal]_vars

\* ------------------------------------------- read_goal_properties inputs
ProgressValues == {-50, 0, 50, 75, 100, 150, 250, 6000, 10000, 15000}

Formulas ==
    {NoFormula, DateFormula}
        \cup {NumberFormula(h) : h \in ProgressValues}
        \cup {StringFormula(h, pc) : h \in ProgressValues, pc \in BOOLEAN}
        \cup {JunkFormula(pc) : pc \in BOOLEAN}

Rollups ==
    {NoRollup} \cup {NumberRollup(n) : n \in 0..MaxCount}
               \cup {ArrayRollup(n) : n \in 0..MaxCount}

InitGoal ==
    /\ today = Today0
    /\ db = <<>>
    /\ LAST_TASKS = <<>>
    /\ goal_page \in [progress : Formulas, total : Rollups, done : Rollups]
    /\ op = NoOp
    /\ goals = <<>>
    /\ env = EnvOf(Some(1), TRUE, FALSE)
    /\ chat = NoChat
    /\ inflight = NoneV
    /\ probe = NoneV

read_goal ==
    /\ op' = [name |-> "read_goal_properties",
              out |-> read_goal_properties(goal_page)]
    /\ UNCHANGED <<today, db, LAST_TASKS, goal_page, goals, env, chat, inflight, probe>>

\* job_monthly's progress of a goal: the normalised progress_pct, else the
\* same parse of the raw formula, else the same rollup ratio, else None.
MonthlyProgressPct(ginfo) ==
    IF ginfo.progress_pct.tag = "some" THEN ginfo.progress_pct
    ELSE IF ginfo.tien_do_formula.kind # "absent"
    THEN ExplicitPct(ginfo.tien_do_formula)
    ELSE RollupPct(ginfo.tong_nhiem_vu_rollup, ginfo.nhiem_vu_da_hoan_rollup)

OrZero(x) == IF x.tag = "some" THEN x.v ELSE 0

\* gs = {"progress": int(progress_pct) if progress_pct is not None else 0,
\*       "done": done_total or 0, "total": total or 0}
MonthlyGoalSummary(ginfo) ==
    [progress |-> OrZero(MonthlyProgressPct(ginfo)),
     done |-> OrZero(ginfo.nhiem_vu_da_hoan_rollup),
     total |-> OrZero(ginfo.tong_nhiem_vu_rollup),
     ginfo |-> ginfo]

\* sorted(goals_summary, key=lambda x: -x['progress']): stable insertion
RECURSIVE SortByProgress(_)
SortByProgress(gs) ==
    IF gs = <<>> THEN <<>>
    ELSE LET rest == SortByProgress(Tail(gs))
             x == Head(gs)
             before == SelectSeq(rest, LAMBDA y: y.progress > x.progress)
             after == SelectSeq(rest, LAMBDA y: y.progress <= x.progress)
         IN before \o <<x>> \o after

\* "• {name} → {progress}% ({done}/{total}) {bar}" for the first 8 goals
MonthlyGoalLines(fetched) ==
    LET gs == SortByProgress([j \in 1..Len(fetched) |->
                  MonthlyGoalSummary(read_goal_properties(fetched[j]))])
        top == SubSeq(gs, 1, IF Len(gs) < 8 THEN Len(gs) ELSE 8)
    IN [j \in 1..Len(top) |->
          [kind |-> "percent", pct |-> top[j].progress,
           done |-> top[j].done, total |-> top[j].total,
           ginfo |-> top[j].ginfo]]

\* The goals summary of job_monthly with GOALS_DB holding goal_page; the
\* task counts of the report do not enter the goal lines.
job_monthly ==
    /\ \E ok \in BOOLEAN:
         LET fetched == IF env.GOALS_DB
                        THEN notion_query(<<goal_page>>, NoFilter, ok)
                        ELSE <<>>
         IN op' = [name |-> "job_monthly", sent |-> "monthly",
                   goal_lines |-> MonthlyGoalLines(fetched)]
    /\ UNCHANGED <<today, db, LAST_TASKS, goal_page, goals, env, chat,
                   inflight, probe>>

\* The block job_daily renders for goal_page when a selected task refers
\* to it: header, progress line, task lines.
daily_goal_block ==
    /\ op' = [name |-> "daily_goal_block", sent |-> "daily",
              goal_lines |-> <<GoalProgressLine(0,
                                 read_goal_properties(goal_page).progress_pct)>>,
              ginfo |-> read_goal_properties(goal_page)]
    /\ UNCHANGED <<today, db, LAST_TASKS, goal_page, goals, env, chat,
                   inflight, probe>>

NextGoal == read_goal \/ job_monthly \/ daily_goal_block

SpecGoal == InitGoal /\ [][NextGoal]_vars

\* ---------------------------------------------------- the field extractors
\* The value the store keeps under props[name]: no such key ("missing"),
\* null, the string "x" ("text"), or a mapping {"type": t, t: payload}.
\* The payload is missing (no key t), null, the string "x" ("text"), the
\* number 5 ("number"), {} ("empty"), or a well-formed payload of its type:
\*   date:    {"start": "2025-12-08"}, {"start": null}, {"start": "soon"}
\*   select:  {"name": "Cao"}
\*   formula: {"string": "60%"}, {"number": 0.6}, {"boolean": true},
\*            {"date": {"start": "2025-12-08"}}
\*   rollup:  {"number": 3}, {"array": [{...}, {...}]}
PropValue(outer, type, payload) ==
    [outer |-> outer, type |-> type, payload |-> payload]

CommonPayloads == {"missing", "null", "text", "number", "empty"}

PayloadsOf(type) ==
    CommonPayloads \cup
    (CASE type = "date" -> {"start", "start_null", "start_junk"}
       [] type = "select" -> {"name"}
       [] type = "formula" -> {"f_string", "f_number", "f_boolean", "f_date"}
       [] OTHER -> {"r_number", "r_array"})

PropTypes == {"date", "select", "formula", "rollup"}

PropShapes ==
    {PropValue(o, "", "") : o \in {"missing", "null", "text"}}
    \cup UNION {{PropValue("map", t, pl) : pl \in PayloadsOf(t)} : t \in PropTypes}

\* What a call returns: a value, the function's absence value, an exception.
Got(kind) == [tag |-> "some", v |-> kind]
Absent == [tag |-> "none", v |-> ""]
Raises == [tag |-> "raise", v |-> ""]

\* v.get(key) on a mapping v: "missing" stands for the default.
PayloadAt(v, key) == IF v.type = key THEN v.payload ELSE "missing"

\* props.get(name, {}).get("date", {}).get("start"), then dateparser.parse
\* inside try: an attribute lookup on null, "x" or 5 raises.
DateStart(v, kind) ==
    IF v.outer = "missing" THEN Absent
    ELSE IF v.outer \in {"null", "text"} THEN Raises
    ELSE LET d == PayloadAt(v, "date") IN
         CASE d \in {"null", "text", "number"} -> Raises
           [] d = "start" -> Got(kind)
           [] OTHER -> Absent

get_date_start_value(v) == DateStart(v, "datetime")

safe_date(v) == DateStart(v, "date")

\* v = props.get(k, {}); sel = v.get("select");
\* sel.get("name") if sel and isinstance(sel, dict) else None
safe_select(v) ==
    IF v.outer = "missing" THEN Absent
    ELSE IF v.outer \in {"null", "text"} THEN Raises
    ELSE IF PayloadAt(v, "select") = "name" THEN Got("name") ELSE Absent

\* f = props.get(k, {}).get("formula"); not f -> None; '"string" in f' on
\* the number 5 raises TypeError, on the string "x" it is False.
safe_formula_value(v) ==
    IF v.outer = "missing" THEN Absent
    ELSE IF v.outer \in {"null", "text"} THEN Raises
    ELSE LET f == PayloadAt(v, "formula") IN
         CASE f = "number" -> Raises
           [] f = "f_string" -> Got("string")
           [] f = "f_number" -> Got("number")
           [] f = "f_date" -> Got("date")
           [] OTHER -> Absent

\* ru = props.get(k, {}).get("rollup"); not ru -> None; then ru.get(...)
safe_rollup_number_value(v) ==
    IF v.outer = "missing" THEN Absent
    ELSE IF v.outer \in {"null", "text"} THEN Raises
    ELSE LET ru == PayloadAt(v, "rollup") IN
         CASE ru \in {"text", "number"} -> Raises
           [] ru = "r_number" -> Got("number")
           [] ru = "r_array" -> Got("count")
           [] OTHER -> Absent

\* prop = props.get(k, {}) or {}; then by prop.get("type"):
\*   formula: prop.get("formula", {}).get(...)     rollup: the same
\*   date:    (prop.get("date", {}) or {}).get("start", "") or ""
\*   select:  (prop.get("select") or {}).get("name", "") or ""
extract_prop_text(v) ==
    IF v.outer \in {"missing", "null"} THEN Absent
    ELSE IF v.outer = "text" THEN Raises
    ELSE LET pl == v.payload IN
         CASE v.type \in {"formula", "rollup"} ->
                (CASE pl \in {"null", "text", "number"} -> Raises
                   [] pl \in {"missing", "empty"} -> Absent
                   [] OTHER -> Got("text"))
           [] OTHER ->
                (CASE pl \in {"text", "number"} -> Raises
                   [] pl \in {"missing", "null", "empty", "start_null"} -> Absent
                   [] OTHER -> Got("text"))

InitExtract ==
    /\ today = Today0
    /\ db = <<>>
    /\ LAST_TASKS = <<>>
    /\ goal_page = NoGoal
    /\ op = NoOp
    /\ goals = <<>>
    /\ env = Env0
    /\ chat = NoChat
    /\ inflight = NoneV
    /\ probe \in PropShapes

Extracted(name, out) ==
    /\ op' = [name |-> name, out |-> out]
    /\ UNCHANGED <<today, db, LAST_TASKS, goal_page, goals, env, chat,
                   inflight, probe>>

call_get_date_start == Extracted("get_date_start", get_date_start_value(probe))
call_safe_date == Extracted("safe_date", safe_date(probe))
call_safe_select == Extracted("safe_select", safe_select(probe))
call_safe_formula == Extracted("safe_formula", safe_formula_value(probe))
call_safe_rollup_number ==
    Extracted("safe_rollup_number", safe_rollup_number_value(probe))
call_extract_prop_text == Extracted("extract_prop_text", extract_prop_text(probe))

NextExtract ==
    \/ call_get_date_start \/ call_safe_date \/ call_safe_select
    \/ call_safe_formula \/ call_safe_rollup_number
    \/ call_extract_prop_text

SpecExtract == InitExtract /\ [][NextExtract]_vars

\* ------------------------------------------------------- velocity planning
\* job_weekly, which debug_run_weekly and the scheduler call, is not part of
\* the source file; its velocity computation follows the Velocity Planner
\* contract: days_remaining = max(0, deadline - today) (30 without a
\* deadline), weeks_remaining = max(1, ceil(days_remaining / 7)),
\* tasks_remaining = max(0, total - done) and required_velocity =
\* round(tasks_remaining / weeks_remaining, 2), here in hundredths.
NoDeadline == [tag |-> "none", v |-> 0]
DefaultHorizon == 30

Max(a, b) == IF a > b THEN a ELSE b

\* Whole weeks only: floor instead of ceil.
plan_floor_weeks(goal, now) ==
    LET days_remaining == IF goal.deadline.tag = "some"
                          THEN Max(0, goal.deadline.v - now)
                          ELSE DefaultHorizon
        weeks_remaining == Max(1, days_remaining \div 7)
        tasks_remaining == Max(0, goal.total - goal.done)
    IN [days_remaining |-> days_remaining,
        weeks_remaining |-> weeks_remaining,
        tasks_remaining |-> tasks_remaining,
        required_velocity |->
            RoundHalfEven(tasks_remaining * 100, weeks_remaining)]

plan(goal, now) ==
    LET days_remaining == IF goal.deadline.tag = "some"
                          THEN Max(0, goal.deadline.v - now)
                          ELSE DefaultHorizon
        weeks_remaining == Max(1, (days_remaining + 6) \div 7)
        tasks_remaining == Max(0, goal.total - goal.done)
    IN [days_remaining |-> days_remaining,
        weeks_remaining |-> weeks_remaining,
        tasks_remaining |-> tasks_remaining,
        required_velocity |->
            RoundHalfEven(tasks_remaining * 100, weeks_remaining)]

VelDeadlines == {NoDeadline} \cup {Some(d) : d \in (Today0 - 3)..(Today0 + 15)}
VelCounts == 0..MaxCount

InitVel ==
    /\ today = Today0
    /\ db = <<>>
    /\ LAST_TASKS = <<>>
    /\ goal_page = NoGoal
    /\ op = NoOp
    /\ goals = <<>>
    /\ env = Env0
    /\ chat = NoChat
    /\ inflight = NoneV
    /\ probe \in [deadline : VelDeadlines, total : VelCounts, done : VelCounts]

job_weekly ==
    /\ op' = [name |-> "job_weekly", out |-> plan(probe, today)]
    /\ UNCHANGED <<today, db, LAST_TASKS, goal_page, goals, env, chat,
                   inflight, probe>>

NextVel == job_weekly

SpecVel == InitVel /\ [][NextVel]_vars

\* ------------------------------------- job_daily on any priority label
\* job_daily on a store whose pages carry an accepted label, no label, or a
\* label that is none of the accepted spellings.
OtherPriorities == {"gấp", "cao "}

InitPri ==
    /\ today \in RuleTodays
    /\ \E n \in 1..MaxProbe:
         \E f \in [1..n -> RuleDues \X (RulePriorities \cup OtherPriorities)]:
            db = [i \in 1..n |-> Page(i, f[i][1], f[i][2], "ok")]
    /\ LAST_TASKS = <<>>
    /\ goal_page = NoGoal
    /\ op = NoOp
    /\ goals = <<>>
    /\ env = Env0
    /\ chat = NoChat
    /\ inflight = NoneV
    /\ probe = NoneV

NextPri == job_daily

SpecPri == InitPri /\ [][NextPri]_vars

\* ------------------------------------------------------------ find_prop_key
\* A property name is a sequence of characters; a record's keys are kept in
\* iteration order (a dict iterates in insertion order; its keys differ).
MaxKeys == 2

LowerChar(c) ==
    CASE c = "A" -> "a"
      [] c = "B" -> "b"
      [] OTHER -> c

\* str.lower()
LowerKey(s) == [i \in 1..Len(s) |-> LowerChar(s[i])]

\* sub in s
Contains(s, sub) ==
    \E i \in 0..(Len(s) - Len(sub)): SubSeq(s, i + 1, i + Len(sub)) = sub

NoKey == [tag |-> "none", v |-> <<>>]
Key(k) == [tag |-> "some", v |-> k]

\* the first index of a non-empty set of indices: the loop returns at it
FirstIndex(S) == CHOOSE i \in S: \A j \in S: i <= j

\* The two loops in the other order: substring before case-insensitive.
find_prop_key_substring_first(props, key_like) ==
    IF props = <<>> \/ key_like = <<>> THEN NoKey
    ELSE IF \E i \in 1..Len(props): props[i] = key_like THEN Key(key_like)
    ELSE LET low == LowerKey(key_like)
             sub == {i \in 1..Len(props): Contains(LowerKey(props[i]), low)}
         IN IF sub # {} THEN Key(props[FirstIndex(sub)]) ELSE NoKey

find_prop_key(props, key_like) ==
    IF props = <<>> \/ key_like = <<>> THEN NoKey
    ELSE IF \E i \in 1..Len(props): props[i] = key_like THEN Key(key_like)
    ELSE LET low == LowerKey(key_like)
             ci == {i \in 1..Len(props): LowerKey(props[i]) = low}
             sub == {i \in 1..Len(props): Contains(LowerKey(props[i]), low)}
         IN IF ci # {} THEN Key(props[FirstIndex(ci)])
            ELSE IF sub # {} THEN Key(props[FirstIndex(sub)])
            ELSE NoKey

\* The keys of the records and the names looked up ("" is the value of a
\* property name configured empty).
PropKeys ==
    {<<"a">>, <<"A">>, <<"b">>, <<"a", "b">>, <<"A", "b">>, <<"A", "B">>,
     <<"b", "a">>, <<"x", "a", "B">>}

KeyLikes == PropKeys \cup {<<>>, <<"B", "a">>}

PropRecords ==
    {ks \in UNION {[1..n -> PropKeys] : n \in 0..MaxKeys}:
        \A i, j \in 1..Len(ks): i # j => ks[i] # ks[j]}

InitKey ==
    /\ today = Today0
    /\ db = <<>>
    /\ LAST_TASKS = <<>>
    /\ goal_page = NoGoal
    /\ op = NoOp
    /\ goals = <<>>
    /\ env = Env0
    /\ chat = NoChat
    /\ inflight = NoneV
    /\ probe \in [props : PropRecords, key_like : KeyLikes]

call_find_prop_key ==
    /\ op' = [name |-> "find_prop_key",
              out |-> find_prop_key(probe.props, probe.key_like)]
    /\ UNCHANGED <<today, db, LAST_TASKS, goal_page, goals, env, chat,
                   inflight, probe>>

NextKey == call_find_prop_key

SpecKey == InitKey /\ [][NextKey]_vars

\* ------------------------------------------------------------ the scheduler
\* start_scheduler registers the cron jobs; the scheduler state is kept in
\* inflight: the ids registered, whether the monthly timer has fired on the
\* current day, and how many times it has run job_monthly in the current
\* calendar month.
MaxDays == 8

Sched(jobs, fired, runs) ==
    [tag |-> "sched", v |-> 0, jobs |-> jobs, fired |-> fired, runs |-> runs]

\* 'job_weekly' in globals(): job_weekly is defined by the service.
job_weekly_undefined == FALSE

JobWeeklyDefined == TRUE

start_scheduler ==
    /\ inflight.jobs = {}
    /\ inflight' = [inflight EXCEPT
                      !.jobs = {"daily", "monthly"}
                          \cup (IF JobWeeklyDefined THEN {"weekly"} ELSE {})]
    /\ UNCHANGED <<today, db, LAST_TASKS, goal_page, op, goals, env, chat,
                   probe>>

\* The calendar date of a day number: its day of the month.
SchedYears == 2025..2028

\* date + timedelta(days=1) works on the ordinal; .day is found from the
\* year and the month the ordinal falls in.
DayOfMonth(n) ==
    LET y == CHOOSE yy \in SchedYears:
                 n \in DayNumber(yy, 1, 1)..(DayNumber(yy + 1, 1, 1) - 1)
        m == CHOOSE mm \in 1..12:
                 n \in DayNumber(y, mm, 1)..DayNumber(y, mm, DaysInMonth(y, mm))
    IN n - DayNumber(y, m, 1) + 1

\* date.weekday(): Monday is 0, Sunday is 6.
Weekday(n) == n % 7

\* cron, hour=REMIND_HOUR: job_daily
timer_daily ==
    /\ "daily" \in inflight.jobs
    /\ job_daily

\* cron, day_of_week='sun', hour=WEEKLY_HOUR: job_weekly
timer_weekly ==
    /\ "weekly" \in inflight.jobs
    /\ Weekday(today) = 6
    /\ job_weekly

\* tomorrow = today + timedelta(days=1); if tomorrow.day == 1
RunsMonthlyOnFirst(day) == DayOfMonth(day) = 1

RunsMonthly(day) ==
    LET tomorrow == day + 1 IN DayOfMonth(tomorrow) = 1

\* cron, hour=MONTHLY_HOUR, once a day: monthly_wrapper.  job_monthly runs
\* when tomorrow.day == 1, inside try/except Exception.
monthly_wrapper ==
    /\ "monthly" \in inflight.jobs
    /\ ~inflight.fired
    /\ IF RunsMonthly(today)
       THEN \E ok \in BOOLEAN, raised \in BOOLEAN:
              LET fetched == IF env.GOALS_DB
                             THEN notion_query(<<goal_page>>, NoFilter, ok)
                             ELSE <<>>
              IN /\ op' = [name |-> "monthly_wrapper", day |-> today,
                           outcome |-> IF raised THEN "caught" ELSE "ran",
                           goal_lines |-> IF raised THEN <<>>
                                          ELSE MonthlyGoalLines(fetched)]
                 /\ inflight' = [inflight EXCEPT !.fired = TRUE,
                                                 !.runs = @ + 1]
       ELSE /\ op' = [name |-> "monthly_wrapper", day |-> today,
                      outcome |-> "skipped", goal_lines |-> <<>>]
            /\ inflight' = [inflight EXCEPT !.fired = TRUE]
    /\ UNCHANGED <<today, db, LAST_TASKS, goal_page, goals, env, chat, probe>>

\* GET/POST /debug/run_weekly: the token test, then job_weekly(); an exception
\* (NameError when job_weekly is not defined) answers 500.
debug_run_weekly ==
    /\ \E token_ok \in BOOLEAN:
         op' = IF ~token_ok
               THEN [name |-> "debug_run_weekly", status |-> 403,
                     out |-> NoneV]
               ELSE IF ~JobWeeklyDefined
               THEN [name |-> "debug_run_weekly", status |-> 500,
                     out |-> NoneV]
               ELSE [name |-> "debug_run_weekly", status |-> 200,
                     out |-> plan(probe, today)]
    /\ UNCHANGED <<today, db, LAST_TASKS, goal_page, goals, env, chat,
                   inflight, probe>>

\* The days the scheduler is started on: before a year end, before the end
\* of a February of 28 and of 29 days, before the end of a month of 30 days.
SchedStarts ==
    {DayNumber(2025, 12, 25), DayNumber(2026, 2, 24),
     DayNumber(2026, 4, 26), DayNumber(2028, 2, 25)}

\* The next day begins.
next_day ==
    /\ \E start \in SchedStarts: today \in start..(start + MaxDays - 1)
    /\ today' = today + 1
    /\ inflight' = [inflight EXCEPT
                      !.fired = FALSE,
                      !.runs = IF DayOfMonth(today + 1) = 1 THEN 0 ELSE @]
    /\ UNCHANGED <<db, LAST_TASKS, goal_page, op, goals, env, chat, probe>>

InitSched ==
    /\ today \in SchedStarts
    /\ db = <<>>
    /\ LAST_TASKS = <<>>
    /\ goal_page = NoGoal
    /\ op = NoOp
    /\ goals = <<>>
    /\ env = Env0
    /\ chat = NoChat
    /\ inflight = Sched({}, FALSE, 0)
    /\ probe \in [deadline : {NoDeadline, Some(Today0 + 40)},
                  total : {4}, done : {1}]

NextSched ==
    \/ start_scheduler \/ next_day
    \/ timer_daily \/ timer_weekly \/ monthly_wrapper
    \/ debug_run_weekly

SpecSched == InitSched /\ [][NextSched]_vars

\* ------------------------------------------------------------------ claims
\* C1: /done.k with 1 <= k <= n requests the store update for exactly the
\* k-th id of the stored list of length n; /done.0 and /done.k with k > n
\* answer the invalid-number message and request no update.
C1_IndexRoundTrip ==
    (op.name = "done" /\ op.arg.tag = "some") =>
        LET k == op.arg.v
            c == op.cache_before
        IN IF k >= 1 /\ k <= Len(c)
           THEN op.update = Some(c[k]) /\ op.sent = "marked_done"
           ELSE op.update = NoneV /\ op.sent = "invalid_number"

\* /done.1 on a stored list whose first id is not 1 asks to update that id.
C1_Witness ==
    /\ op.name = "done" /\ op.arg = Some(1)
    /\ op.cache_before # <<>> /\ op.cache_before[1] = 2
    /\ op.update = Some(2)

\* C2 (as claimed): after a /check that renders n >= 1 lines the cache holds
\* exactly the ids of the rendered pages, in rendered order.
C2_CheckCachesRendered ==
    (op.name = "check" /\ Len(op.lines) >= 1) =>
        LAST_TASKS = [j \in 1..Len(op.lines) |-> op.lines[j].id]

\* C3: every line of a daily report bearing ordinal i is about the page whose
\* id the same run stored at LAST_TASKS[i-1], skipped entries included.
C3_DailyOrdinalsMatchCache ==
    op.name = "job_daily" =>
        \A j \in 1..Len(op.lines):
            /\ op.lines[j].ord \in 1..Len(LAST_TASKS)
            /\ LAST_TASKS[op.lines[j].ord] = op.lines[j].id

\* A daily report in which a selected page was skipped before a rendered one.
C3_Witness ==
    /\ op.name = "job_daily"
    /\ Len(op.lines) < Len(op.tasks)
    /\ \E j \in 1..Len(op.lines): op.lines[j].ord # j

\* C4 (as claimed): after any /check the cache holds nothing but ids of that
\* /check's own listing, so no id of an earlier listing remains.
C4_CheckReplacesCache ==
    op.name = "check" =>
        \A i \in 1..Len(LAST_TASKS):
            \E j \in 1..Len(op.lines): op.lines[j].id = LAST_TASKS[i]

\* The place of a page in a list of pages with distinct ids.
Position(pages, id) == CHOOSE k \in 1..Len(pages): pages[k].id = id

\* The selected list is a subsequence of the store's result: every selected
\* page was fetched, and selected pages keep the order they were fetched in.
OrderedSubsequence ==
    op.name = "job_daily" =>
        /\ \A i \in 1..Len(op.tasks):
              \E k \in 1..Len(op.all_tasks): op.all_tasks[k] = op.tasks[i]
        /\ \A i, j \in 1..Len(op.tasks):
              i < j => Position(op.all_tasks, op.tasks[i].id)
                          < Position(op.all_tasks, op.tasks[j].id)

\* C7: the daily selection is a subsequence of the store's result (same
\* relative order, nothing twice), and a run repeated on the same result and
\* the same today selects the same list whatever the cache holds.
C7_SelectionStableAndRepeatable ==
    /\ []OrderedSubsequence
    /\ [][(/\ op.name = "job_daily" /\ op'.name = "job_daily"
           /\ op'.all_tasks = op.all_tasks /\ today' = today)
          => op'.tasks = op.tasks]_vars

\* A daily run repeated over the cache its predecessor stored, selecting two
\* pages of which the later due one comes first.
C7_Witness ==
    /\ op.name = "job_daily"
    /\ Len(op.tasks) = 2
    /\ op.cache_before = PageIds(op.tasks)
    /\ op.tasks[1].due.day > op.tasks[2].due.day

\* The page is in the list the last selection produced.
IsSelected(p) == \E k \in 1..Len(op.tasks): op.tasks[k].id = p.id

PriorityClass(label) ==
    CASE label \in {"Cao", "cao"} -> "High"
      [] label \in {"tb", "TB", "Trung bình", "trung bình"} -> "Medium"
      [] label \in {"Thấp", "thấp"} -> "Low"
      [] OTHER -> "Other"

Lookahead(class) ==
    CASE class = "High" -> 2 [] class = "Medium" -> 1 [] OTHER -> 0

\* C5: a fetched page of priority High, Medium or Low is selected by the daily
\* rule if and only if it has a due date and days_left = due - today is
\* <= 2 (High), <= 1 (Medium), <= 0 (Low); without a due date never.
C5_DailySelectionRule ==
    op.name = "select_daily" =>
        \A i \in 1..Len(db):
            LET p == db[i]
                class == PriorityClass(p.pri)
            IN class # "Other" =>
                (IsSelected(p) <=>
                    /\ p.due.kind = "date"
                    /\ p.due.day - today <= Lookahead(class))

\* The boundaries: a High page due in 2 days and a Low page due today are in.
C5_Witness ==
    /\ op.name = "select_daily"
    /\ \E i \in 1..Len(db):
          /\ IsSelected(db[i])
          /\ \/ (db[i].pri = "Cao" /\ db[i].due = DateOn(today + 2))
             \/ (db[i].pri = "Thấp" /\ db[i].due = DateOn(today))

\* The Monday and the Sunday of the calendar week of day d.
MondayOf(d) == CHOOSE m \in (d - 6)..d : m % 7 = 0
SundayOf(d) == CHOOSE u \in d..(d + 6) : u % 7 = 6

C8_ProgressWithinRange ==
    (op.name = "read_goal_properties" /\ op.out.progress_pct.tag = "some") =>
        (op.out.progress_pct.v >= 0 /\ op.out.progress_pct.v <= 100)

Abs(x) == IF x < 0 THEN -x ELSE x

\* C9: an explicit progress value that parses decides progress_pct alone
\* (the nearest integer to the value, or to 100 times it when it is <= 1);
\* without an explicit value, total > 0 and done present give the nearest
\* integer to done / total * 100.
C9_ProgressPrecedence ==
    op.name = "read_goal_properties" =>
        LET g == goal_page
            pct == op.out.progress_pct
        IN /\ g.progress.kind \in {"number", "string"} =>
                /\ pct.tag = "some"
                /\ IF g.progress.h <= 100
                   THEN pct.v = g.progress.h
                   ELSE 2 * Abs(100 * pct.v - g.progress.h) <= 100
           /\ (/\ g.progress.kind = "absent"
               /\ g.total.kind # "absent" /\ g.total.n > 0
               /\ g.done.kind # "absent") =>
                /\ pct.tag = "some"
                /\ 2 * Abs(pct.v * g.total.n - 100 * g.done.n) <= g.total.n

\* An explicit 0.75 beside counts 6 of 10: the percentage is 75, not 60.
C9_Witness ==
    /\ op.name = "read_goal_properties"
    /\ goal_page.progress = StringFormula(75, FALSE)
    /\ goal_page.total = NumberRollup(10)
    /\ goal_page.done = NumberRollup(6)
    /\ op.out.progress_pct = Some(75)

\* C10 (as claimed): with no explicit value, total 0 or absent and done
\* present give 0; total and done both absent give no percentage.
C10_ZeroOrAbsentTotal ==
    (op.name = "read_goal_properties" /\ goal_page.progress.kind = "absent") =>
        /\ (/\ (goal_page.total.kind = "absent" \/ goal_page.total.n = 0)
            /\ goal_page.done.kind # "absent") =>
                op.out.progress_pct = Some(0)
        /\ (goal_page.total.kind = "absent" /\ goal_page.done.kind = "absent")
              => op.out.progress_pct = NoneV

\* p's relation property lists the goal gid.
Refs(p, gid) == \E k \in 1..Len(p.rels): p.rels[k] = gid

\* The goal pages the last job_daily run fetched.
AggFetched == IF op.goals_ok THEN goals ELSE <<>>

\* The goal headers of the last daily report, and the task lines of a goal.
GoalHeaders == SelectSeq(op.goal_lines, LAMBDA l: l.kind = "goal")
BlockTaskIds(gid) ==
    LET ls == SelectSeq(op.goal_lines,
                        LAMBDA l: l.kind = "task" /\ l.gid = gid)
    IN [k \in 1..Len(ls) |-> ls[k].id]

\* C11: in a daily report every selected task appears under every fetched
\* goal it references (the block of a goal lists exactly the selected tasks
\* that reference it), and the goal-task total is the sum of the block sizes,
\* so a task under two goals counts twice.
C11_GoalFanOutCount ==
    (op.name = "job_daily" /\ op.sent = "daily") =>
        /\ \A i \in 1..Len(op.tasks): \A j \in 1..Len(AggFetched):
              Refs(op.tasks[i], AggFetched[j].id) =>
                  \E k \in 1..Len(BlockTaskIds(AggFetched[j].id)):
                      BlockTaskIds(AggFetched[j].id)[k] = op.tasks[i].id
        /\ \A h \in 1..Len(GoalHeaders):
              BlockTaskIds(GoalHeaders[h].gid) =
                  PageIds(SelectSeq(op.tasks,
                             LAMBDA p: Refs(p, GoalHeaders[h].gid)))
        /\ op.total_goal_tasks_due =
              Cardinality({x \in (1..Len(op.tasks)) \X (1..Len(GoalHeaders)):
                              Refs(op.tasks[x[1]], GoalHeaders[x[2]].gid)})

\* One selected task linked to two fetched goals: two blocks, total 2.
C11_Witness ==
    /\ op.name = "job_daily" /\ op.sent = "daily"
    /\ Len(op.tasks) = 1
    /\ op.tasks[1].rels = <<1, 2>>
    /\ Len(GoalHeaders) = 2
    /\ BlockTaskIds(1) = <<op.tasks[1].id>>
    /\ BlockTaskIds(2) = <<op.tasks[1].id>>
    /\ op.total_goal_tasks_due = 2

\* C12: the goal headers of a daily report are the fetched goals that some
\* selected task references, in the order of the fetched goal list.
C12_BlocksInGoalListOrder ==
    (op.name = "job_daily" /\ op.sent = "daily") =>
        LET shown == SelectSeq(AggFetched,
                        LAMBDA g: \E i \in 1..Len(op.tasks):
                                      Refs(op.tasks[i], g.id))
        IN [h \in 1..Len(GoalHeaders) |-> GoalHeaders[h].gid]
               = [j \in 1..Len(shown) |-> shown[j].id]

\* The goal list is <<2, 1>>, the first task references goal 1 and the second
\* goal 2: the blocks come in goal-list order.
C12_Witness ==
    /\ op.name = "job_daily" /\ op.sent = "daily"
    /\ Len(op.tasks) = 2
    /\ op.tasks[1].rels = <<1>> /\ op.tasks[2].rels = <<2>>
    /\ Len(AggFetched) = 2 /\ AggFetched[1].id = 2
    /\ Len(GoalHeaders) = 2
    /\ GoalHeaders[1].gid = 2 /\ GoalHeaders[2].gid = 1

\* C13: get_date_start, safe_date, safe_select, safe_formula,
\* safe_rollup_number and extract_prop_text never raise, whatever the shape of
\* the property value: they return a value or their absence value.
C13_ExtractionNeverRaises ==
    (op.name \in {"get_date_start", "safe_date", "safe_select", "safe_formula",
                  "safe_rollup_number", "extract_prop_text"})
        => op.out.tag # "raise"

\* C14: a report line about a goal whose normalised progress is absent says
\* "no data", in the daily goal block and in the monthly goals summary.
C14_AbsentProgressShownAsNoData ==
    /\ (op.name = "daily_goal_block" /\ op.ginfo.progress_pct.tag = "none")
          => \A k \in 1..Len(op.goal_lines): op.goal_lines[k].kind = "no_data"
    /\ op.name = "job_monthly"
          => \A k \in 1..Len(op.goal_lines):
                op.goal_lines[k].ginfo.progress_pct.tag = "none"
                    => op.goal_lines[k].kind = "no_data"

\* The chat a step ran a listing for: the chat whose /check was accepted,
\* or the configured chat of a scheduled daily report (NoChat otherwise).
ListingChat ==
    IF op'.name = "check" THEN chat'
    ELSE IF op'.name = "job_daily" /\ env.TELEGRAM_CHAT_ID.tag = "some"
    THEN env.TELEGRAM_CHAT_ID.v
    ELSE NoChat

\* What "/done.k" sent from a chat the webhook accepts resolves to.
DoneTarget(cache, k) == IF k \in 1..Len(cache) THEN cache[k] ELSE 0

\* C15: a listing run for one chat leaves unchanged what /done.k resolves to
\* for every other chat whose messages the webhook accepts.
C15_CachePerConversation ==
    [][\A c \in Chats:
          (ListingChat # NoChat /\ c # ListingChat /\ Allowed(c)) =>
              \A k \in 1..(MaxTasks + 1):
                  DoneTarget(LAST_TASKS', k) = DoneTarget(LAST_TASKS, k)]_vars

\* C16: for a goal with a deadline, days_remaining is the distance to the
\* deadline, 0 once it has passed; weeks_remaining is the least number of
\* weeks covering it and at least 1; tasks_remaining is total - done, never
\* negative; required_velocity is tasks_remaining / weeks_remaining to the
\* nearest hundredth; a deadline in 13 days with 10 tasks, 4 done gives
\* 6 tasks, 2 weeks and 3.00 per week.
C16_VelocityPlan ==
    (op.name = "job_weekly" /\ probe.deadline.tag = "some") =>
        LET r == op.out
            left == probe.deadline.v - today
        IN /\ r.days_remaining >= 0
           /\ left >= 0 => r.days_remaining = left
           /\ left < 0 => r.days_remaining = 0
           /\ r.weeks_remaining >= 1
           /\ 7 * r.weeks_remaining >= r.days_remaining
           /\ r.weeks_remaining > 1 =>
                 7 * (r.weeks_remaining - 1) < r.days_remaining
           /\ r.tasks_remaining >= 0
           /\ probe.total >= probe.done =>
                 r.tasks_remaining = probe.total - probe.done
           /\ probe.total < probe.done => r.tasks_remaining = 0
           /\ 2 * Abs(r.required_velocity * r.weeks_remaining
                         - 100 * r.tasks_remaining) <= r.weeks_remaining
           /\ (left = 13 /\ probe.total = 10 /\ probe.done = 4) =>
                 /\ r.tasks_remaining = 6
                 /\ r.weeks_remaining = 2
                 /\ r.required_velocity = 300

\* The scenario of the claim.
C16_Witness ==
    /\ op.name = "job_weekly"
    /\ probe.deadline = Some(today + 13)
    /\ probe.total = 10 /\ probe.done = 4
    /\ op.out.required_velocity = 300

\* C17: when no plan came from the language model (no key configured, or
\* the planning part failed), the daily report that was sent carries, for
\* every goal of GOALS_DB, lines rendered locally from that goal's data.
C17_FallbackSummaryDelivered ==
    (op.name = "job_daily" /\ op.sent = "daily" /\ env.GOALS_DB
       /\ op.ai \in {"skipped", "raised"}) =>
        \A j \in 1..Len(goals):
            \E k \in 1..Len(op.goal_lines): op.goal_lines[k].gid = goals[j].id

AllDigits(s) == \A k \in 1..Len(s): s[k] \in Digits

\* The text is DDMMYY or DDMMYYYY and names a day of the calendar.
IsValidDatePart(s) ==
    /\ Len(s) \in {6, 8} /\ AllDigits(s)
    /\ LET d == DecimalValue(SubSeq(s, 1, 2))
           m == DecimalValue(SubSeq(s, 3, 4))
           y == IF Len(s) = 6 THEN 2000 + DecimalValue(SubSeq(s, 5, 6))
                ELSE DecimalValue(SubSeq(s, 5, 8))
       IN y >= 1 /\ m \in 1..12 /\ d >= 1 /\ d <= DaysInMonth(y, m)

\* The text is HHMM: four digits, hour below 24, minute below 60.
IsValidTimePart(s) ==
    /\ Len(s) = 4 /\ AllDigits(s)
    /\ DecimalValue(SubSeq(s, 1, 2)) <= 23
    /\ DecimalValue(SubSeq(s, 3, 4)) <= 59

\* C18: a /new command whose date part is not a valid DDMMYY or DDMMYYYY
\* date, or whose time part is not a valid HHMM, is answered with the
\* corrective message, creates no page and leaves LAST_TASKS as it was.
C18_BadNewCommandRejected ==
    (op.name = "new" /\ op.sent # "bad_format"
       /\ (\/ ~IsValidDatePart(op.date_part)
           \/ (op.time_part.given /\ ~IsValidTimePart(op.time_part.text))))
        => /\ op.sent = "bad_datetime"
           /\ ~op.created
           /\ LAST_TASKS = op.cache_before
\* C19: in every listing (the daily report and /check) each rendered line of
\* a task with a due date carries the annotation given by today - due_date
\* alone: overdue by delta days, due today, or |delta| days remaining.
C19_LineCarriesDueAnnotation ==
    op.name \in {"job_daily", "check"} =>
        \A j \in 1..Len(op.lines):
            \A i \in 1..Len(db):
                (db[i].id = op.lines[j].id /\ get_date_start(db[i]).tag = "some")
                    => LET delta == today - get_date_start(db[i]).v
                       IN op.lines[j].sys_note =
                            IF delta > 0
                            THEN [kind |-> "overdue", days |-> delta]
                            ELSE IF delta = 0
                            THEN [kind |-> "today", days |-> 0]
                            ELSE [kind |-> "remaining", days |-> -delta]

\* C19, the daily half alone (holds): the report's lines carry the annotation.
C19_DailyLineCarriesDueAnnotation ==
    op.name = "job_daily" =>
        \A j \in 1..Len(op.lines):
            \A i \in 1..Len(db):
                (db[i].id = op.lines[j].id /\ get_date_start(db[i]).tag = "some")
                    => op.lines[j].sys_note
                         = SysNote(Some(today - get_date_start(db[i]).v))

\* C20: under any interleaving of /done.k with a job_daily or a /check that
\* replaces the cache, /done.k marks the k-th id of the list the length test
\* saw or of the list stored since, or reports the invalid-number message; it
\* never ends in the internal-error path.
C20_ResolveAtomic ==
    op.name = "done" =>
        \/ op.sent = "invalid_number"
        \/ /\ op.sent = "marked_done"
           /\ \E l \in {op.seen, op.cache_before}:
                 /\ op.arg.v \in 1..Len(l)
                 /\ l[op.arg.v] = op.update.v

\* C21: whenever a listing message has been sent, the cache already holds
\* that listing's ids, so a /done.k handled after the daily report message
\* was sent resolves against that report's list, not the previous one.
C21_CacheStoredBeforeSend ==
    /\ inflight.tag = "sent" => LAST_TASKS = inflight.ids
    /\ (inflight.tag = "sent" /\ op.name = "done" /\ op.sent = "marked_done")
          => /\ op.arg.v \in 1..Len(inflight.ids)
             /\ op.update.v = inflight.ids[op.arg.v]

\* C22: /done never modifies the cache: across any /done.k (valid or out of
\* range, store update succeeding or failing) LAST_TASKS is unchanged, and a
\* /done.k repeated right after a successful /done.k resolves to the same id,
\* whose task stays completed.
C22_DoneKeepsCache ==
    [][op'.name = "done" =>
          /\ LAST_TASKS' = LAST_TASKS
          /\ (op.name = "done" /\ op.sent = "marked_done" /\ op'.arg = op.arg)
                => /\ op'.sent = "marked_done"
                   /\ op'.update = op.update
                   /\ db[op.update.v].done => db'[op.update.v].done]_vars

\* a /done.k has marked a task of a non-empty cache, and the cache is the one
\* it read.
C22_Witness ==
    /\ op.name = "done" /\ op.sent = "marked_done"
    /\ LAST_TASKS # <<>> /\ LAST_TASKS = op.cache_before
    /\ db[op.update.v].done

\* C23: in the daily report one malformed goal record in the fetched goal
\* list does not prevent the task list and the blocks of the other goals from
\* being rendered and sent.
C23_BadGoalDoesNotStopReport ==
    op.name = "job_daily" =>
        /\ op.sent = "daily"
        /\ op.lines = DailyLines(op.tasks, today)
        /\ op.goals_ok =>
             \A j \in 1..Len(goals):
                (~ReadGoalRaises(goals[j])
                    /\ goal_map(op.tasks, goals[j].id) # <<>>)
                  => \E k \in 1..Len(op.goal_lines):
                        /\ op.goal_lines[k].kind = "goal"
                        /\ op.goal_lines[k].gid = goals[j].id

IsLastDayOfMonth(n) ==
    \E y \in SchedYears, m \in 1..12: n = DayNumber(y, m, DaysInMonth(y, m))

\* C29: the monthly timer fires every day, and its wrapper runs job_monthly
\* exactly on the last calendar day of a month and does nothing on any other
\* day; the timer runs job_monthly at most once per calendar month; an
\* exception of job_monthly ends inside the wrapper.
C29_MonthlyOnLastDayOnly ==
    /\ inflight.tag = "sched" => inflight.runs <= 1
    /\ op.name = "monthly_wrapper" =>
         /\ op.outcome \in {"skipped", "ran", "caught"}
         /\ op.outcome = "skipped" <=> ~IsLastDayOfMonth(op.day)

\* job_monthly has run on 2028-02-29, the last day of a leap February.
C29_Witness ==
    /\ op.name = "monthly_wrapper" /\ op.outcome = "ran"
    /\ op.day = DayNumber(2028, 2, 29)
    /\ inflight.runs = 1

\* The key the lookup precedence names for a record and a name: the exact
\* key, else the first key equal ignoring case, else the first key that
\* contains the lower-cased name, else none.
PrecedenceHolds(props, key_like, out) ==
    LET low == LowerKey(key_like)
        exact == \E i \in 1..Len(props): props[i] = key_like
        IsCi(i) == LowerKey(props[i]) = low
        IsSub(i) == Contains(LowerKey(props[i]), low)
        ci == \E i \in 1..Len(props): IsCi(i)
        sub == \E i \in 1..Len(props): IsSub(i)
    IN /\ exact => out = Key(key_like)
       /\ (~exact /\ ci) =>
            \E i \in 1..Len(props):
                /\ IsCi(i) /\ out = Key(props[i])
                /\ \A j \in 1..(i - 1): ~IsCi(j)
       /\ (~exact /\ ~ci /\ sub) =>
            \E i \in 1..Len(props):
                /\ IsSub(i) /\ out = Key(props[i])
                /\ \A j \in 1..(i - 1): ~IsSub(j)
       /\ (~exact /\ ~ci /\ ~sub) => out = NoKey

C26_ForeignChatHasNoEffect ==
    [][/\ env.TELEGRAM_CHAT_ID.tag = "some"
            => chat' \in {NoChat, env.TELEGRAM_CHAT_ID.v}
       /\ op'.name = "forbidden" =>
            /\ op'.sent = "403"
            /\ db' = db /\ LAST_TASKS' = LAST_TASKS /\ chat' = chat]_vars

\* a "/done.1" from a foreign chat has been rejected while the cache holds a
\* listing.
C26_Witness ==
    /\ op.name = "forbidden" /\ op.text = "/done.1"
    /\ env.TELEGRAM_CHAT_ID = Some(1)
    /\ LAST_TASKS # <<>>

\* C27: /done.k with a valid index sends the "marked Done" confirmation only
\* if the store update of that task succeeded: after a confirmation the task
\* is completed in the store.
C27_ConfirmationOnlyAfterUpdate ==
    (op.name = "done" /\ op.sent = "marked_done") => db[op.update.v].done

\* C28: a task whose priority label is absent or none of the accepted
\* spellings is never selected by the daily report, however far overdue, and
\* never enters the cache through job_daily.
C28_UnknownPriorityNeverSelected ==
    \A i \in 1..Len(db):
        PriorityClass(db[i].pri) = "Other" =>
            /\ \A k \in 1..Len(LAST_TASKS): LAST_TASKS[k] # db[i].id
            /\ op.name = "job_daily" =>
                 \A k \in 1..Len(op.tasks): op.tasks[k].id # db[i].id

\* job_daily has run on a store holding an overdue task with a label that is
\* not accepted.
C28_Witness ==
    /\ op.name = "job_daily" /\ op.sent = "daily"
    /\ \E i \in 1..Len(db):
          /\ db[i].pri = "gấp"
          /\ db[i].due.kind = "date" /\ db[i].due.day < today - 3

====
